---- MODULE Spec2Model ----
(***************************************************************************)
(* cytorch: dense 2-D tensors (tensor.c) and the autograd variables built  *)
(* on them (variable.c).                                                   *)
(*                                                                         *)
(* Memory model.  heap.blocks is the sequence of buffers obtained from     *)
(* calloc; a buffer's address is its index.  A tensor_t (a "header") is    *)
(* the record [data, num_rows, num_columns], data being a buffer address   *)
(* (0 = NULL).                                                             *)
(* Entries are doubles in the code; the model computes with integers,      *)
(* which are exact for the small values used here.                         *)
(*                                                                         *)
(* _new_tensor returns the address of a compound literal of its own block; *)
(* the literal's lifetime ends at the return, so every tensor_t* the       *)
(* library hands out dangles.  What a later read through such a pointer    *)
(* yields is not defined; the model draws it when the tensor is made: the  *)
(* bytes of the literal (the slot survived), or one of Clobbered: a zeroed *)
(* slot, or a slot whose data word holds the address of another allocation *)
(* of the same size.  heap.stale counts the slots of the run that were     *)
(* overwritten; MaxClobbers bounds it.                                     *)
(***************************************************************************)
EXTENDS Integers, Sequences, FiniteSets

VARIABLES heap, status, pc, left, right, result, heap0,
          variables, origin, script, cursor, root, visited, contrib

tensorVars == <<pc, left, right, result, heap0>>
graphVars == <<variables, origin, script, cursor, root, visited, contrib>>
vars == <<heap, status, pc, left, right, result, heap0,
          variables, origin, script, cursor, root, visited, contrib>>

(* ------------------------------ bounds -------------------------------- *)

\* largest number of rows / of columns of a tensor the client creates
MaxDim == 3

\* entries of the input tensors: base + step * flat index
EntryBases == {-1, 2}
EntrySteps == {0, 1}

\* the values the client writes when it mutates a tensor after a copy
WrittenValues == {9}

\* the most dead literals of a run whose slot is overwritten before it is read
MaxClobbers == 1

\* the most variables a client without a script creates, and the shapes it asks for
MaxVars == 2
FreeShapes == {<<1, 1>>, <<1, 2>>}

\* the values set_to_scalar is called with (FreeScalars: by a client without a
\* script), and the seeds of a backward pass
Scalars == {-2, 3, 4}
FreeScalars == {-2}
Seeds == {1, -2}

(* ------------------------------ tensor.h ------------------------------ *)

NullHeader == [data |-> 0, num_rows |-> 0, num_columns |-> 0]

Ok(hp, t) == [heap |-> hp, status |-> "ok", ret |-> t]
Abort(hp, why) == [heap |-> hp, status |-> why, ret |-> NullHeader]

\* tensor->data[0 .. n-1] lies inside an allocation
Accessible(hp, t, n) == n = 0 \/ (t.data \in DOMAIN hp.blocks /\ n <= Len(hp.blocks[t.data]))

_tensor_get_entry(hp, t, index) == hp.blocks[t.data][index + 1]

_tensor_set_entry(hp, t, value, index) == [hp EXCEPT !.blocks[t.data][index + 1] = value]

\* a failed DEBUG_ASSERT ends the operation with the named error
DEBUG_ASSERT(condition, error) == IF condition THEN "ok" ELSE error

(* ------------------------------ tensor.c ------------------------------ *)

_tensor_get_size(t) == t.num_rows * t.num_columns

\* the entries a header denotes, in flat (row-major) order
Entries(hp, t) ==
    IF Accessible(hp, t, _tensor_get_size(t))
    THEN [i \in 1.._tensor_get_size(t) |-> hp.blocks[t.data][i]]
    ELSE << >>

\* the other allocations of the size of lit's
SameSize(lit, hp) ==
    {a \in DOMAIN hp.blocks :
        a # lit.data /\ Len(hp.blocks[a]) = Len(hp.blocks[lit.data])}

\* what the slot of the dead compound literal `lit` may hold once it has been
\* overwritten: zero bytes, or the literal with the address of another allocation
\* of its size in the data word
Clobbered(lit, hp) ==
    {NullHeader} \cup {[lit EXCEPT !.data = d] : d \in SameSize(lit, hp)}

\* return &(tensor_t){...}: the callers read the literal after its lifetime ended,
\* and find the literal or, in at most MaxClobbers slots of a run, something else
_new_tensor(hp, num_rows, num_columns) ==
    LET num_entries == num_rows * num_columns
        raw_data == Len(hp.blocks) + 1
        hp1 == [hp EXCEPT !.blocks = Append(@, [i \in 1..num_entries |-> 0])]
        lit == [data |-> raw_data, num_rows |-> num_rows, num_columns |-> num_columns]
    IN  {Ok(hp1, lit)}
          \cup {Ok([hp1 EXCEPT !.stale = @ + 1], t) :
                  t \in IF hp.stale < MaxClobbers THEN Clobbered(lit, hp1) ELSE {}}

_new_tensor_like(hp, old_tensor) ==
    _new_tensor(hp, old_tensor.num_rows, old_tensor.num_columns)

_new_tensor_zeros_like(hp, old_tensor) ==
    _new_tensor(hp, old_tensor.num_rows, old_tensor.num_columns)

\* memcpy(new_tensor->data, old_tensor->data, size of old_tensor)
_copy_tensor(hp, old_tensor) ==
    LET n == _tensor_get_size(old_tensor)
        memcpy(h, new_tensor) ==
            [h EXCEPT !.blocks[new_tensor.data] =
                [i \in 1..Len(@) |-> IF i <= n THEN h.blocks[old_tensor.data][i] ELSE @[i]]]
    IN  {IF n = 0
         THEN Ok(o.heap, o.ret)
         ELSE IF Accessible(o.heap, o.ret, n) /\ Accessible(o.heap, old_tensor, n)
         THEN Ok(memcpy(o.heap, o.ret), o.ret)
         ELSE Abort(o.heap, "Fault")
           : o \in _new_tensor_like(hp, old_tensor)}

\* _tensor_exact_compatible comparing the entry counts instead of the dimensions
_tensor_exact_compatible_size_only(left_tensor, right_tensor) ==
    _tensor_get_size(left_tensor) = _tensor_get_size(right_tensor)

_tensor_exact_compatible(left_tensor, right_tensor) ==
    (left_tensor.num_columns = right_tensor.num_columns)
      /\ (left_tensor.num_rows = right_tensor.num_rows)

_tensor_broadcast_compatible(left_tensor, right_tensor) ==
    _tensor_exact_compatible(left_tensor, right_tensor)

_scalar_add(left_scalar, right_scalar) == left_scalar + right_scalar

_scalar_multiply(left_scalar, right_scalar) == left_scalar * right_scalar

_scalar_subtract(left_scalar, right_scalar) == left_scalar - right_scalar

\* (*tensor_scalar_fn)(left_entry, right_entry)
CallEntryFn(tensor_scalar_fn, left_entry, right_entry) ==
    CASE tensor_scalar_fn = "_scalar_add" -> _scalar_add(left_entry, right_entry)
      [] tensor_scalar_fn = "_scalar_subtract" -> _scalar_subtract(left_entry, right_entry)
      [] tensor_scalar_fn = "_scalar_multiply" -> _scalar_multiply(left_entry, right_entry)

\* the for loop of _tensor_broadcast_scalar_fn, from `index` on
RECURSIVE BroadcastLoop(_, _, _, _, _, _)
BroadcastLoop(hp, left_tensor, right_tensor, new_tensor, tensor_scalar_fn, index) ==
    IF index >= _tensor_get_size(left_tensor)
    THEN hp
    ELSE LET left_entry == _tensor_get_entry(hp, left_tensor, index)
             right_entry == _tensor_get_entry(hp, right_tensor, index)
             new_entry == CallEntryFn(tensor_scalar_fn, left_entry, right_entry)
         IN  BroadcastLoop(_tensor_set_entry(hp, new_tensor, new_entry, index),
                           left_tensor, right_tensor, new_tensor, tensor_scalar_fn,
                           index + 1)

_tensor_broadcast_scalar_fn(hp, left_tensor, right_tensor, tensor_scalar_fn) ==
    LET n == _tensor_get_size(left_tensor)
        checked == DEBUG_ASSERT(_tensor_broadcast_compatible(left_tensor, right_tensor),
                                "ShapeMismatch")
    IN  IF checked # "ok"
        THEN {Abort(hp, checked)}
        ELSE {IF Accessible(o.heap, left_tensor, n) /\ Accessible(o.heap, right_tensor, n)
                   /\ Accessible(o.heap, o.ret, n)
              THEN Ok(BroadcastLoop(o.heap, left_tensor, right_tensor, o.ret,
                                    tensor_scalar_fn, 0), o.ret)
              ELSE Abort(o.heap, "Fault")
                : o \in _new_tensor_like(hp, left_tensor)}

_tensor_add(hp, left_tensor, right_tensor) ==
    _tensor_broadcast_scalar_fn(hp, left_tensor, right_tensor, "_scalar_add")

_tensor_subtract(hp, left_tensor, right_tensor) ==
    _tensor_broadcast_scalar_fn(hp, left_tensor, right_tensor, "_scalar_subtract")

_tensor_multiply(hp, left_tensor, right_tensor) ==
    _tensor_broadcast_scalar_fn(hp, left_tensor, right_tensor, "_scalar_multiply")

(* ------------- tensor functions variable.c calls (tensor.h) ----------- *)

\* tensor->data[0 .. Len(values)-1] = values, or a fault
Store(hp, t, values) ==
    IF Len(values) = 0
    THEN Ok(hp, t)
    ELSE IF Accessible(hp, t, Len(values))
    THEN Ok([hp EXCEPT !.blocks[t.data] =
                [i \in 1..Len(@) |-> IF i <= Len(values) THEN values[i] ELSE @[i]]], t)
    ELSE Abort(hp, "Fault")

\* fill the freshly allocated tensors of `fresh` with the entries f[1..n] read from t
StoreInto(fresh, t, f) ==
    {IF Accessible(o.heap, t, _tensor_get_size(t))
     THEN Store(o.heap, o.ret, f)
     ELSE Abort(o.heap, "Fault") : o \in fresh}

_tensor_set_to_scalar_value(hp, t, value) ==
    Store(hp, t, [i \in 1.._tensor_get_size(t) |-> value])

_tensor_multiply_by_scalar_value(hp, t, value) ==
    IF Accessible(hp, t, _tensor_get_size(t))
    THEN Store(hp, t, [i \in 1.._tensor_get_size(t) |-> hp.blocks[t.data][i] * value])
    ELSE Abort(hp, "Fault")

\* tensor[i] *= other[i], in place
_tensor_multiply_existing(hp, t, other) ==
    LET n == _tensor_get_size(t)
        checked == DEBUG_ASSERT(_tensor_broadcast_compatible(t, other), "ShapeMismatch")
    IN  IF checked # "ok"
        THEN Abort(hp, checked)
        ELSE IF Accessible(hp, t, n) /\ Accessible(hp, other, n)
        THEN Store(hp, t, [i \in 1..n |-> hp.blocks[t.data][i] * hp.blocks[other.data][i]])
        ELSE Abort(hp, "Fault")

Abs(x) == IF x < 0 THEN -x ELSE x

Sign(x) == IF x < 0 THEN -1 ELSE IF x > 0 THEN 1 ELSE 0

RECURSIVE SumSeq(_)
SumSeq(q) == IF q = << >> THEN 0 ELSE Head(q) + SumSeq(Tail(q))

_tensor_abs(hp, t) ==
    StoreInto(_new_tensor_like(hp, t), t,
              [i \in 1.._tensor_get_size(t) |-> Abs(hp.blocks[t.data][i])])

_tensor_abs_grad(hp, t) ==
    StoreInto(_new_tensor_like(hp, t), t,
              [i \in 1.._tensor_get_size(t) |-> Sign(hp.blocks[t.data][i])])

_tensor_sum(hp, t) ==
    StoreInto(_new_tensor(hp, 1, 1), t, <<SumSeq(Entries(hp, t))>>)

_tensor_sum_grad(hp, t) ==
    StoreInto(_new_tensor_like(hp, t), t, [i \in 1.._tensor_get_size(t) |-> 1])

(* ------------------------------- grad.h ------------------------------- *)

_default_grad_meta == [args |-> << >>, backward |-> << >>]

_unary_set_grad_meta(vs, new_variable, variable, grad_fn) ==
    [vs EXCEPT ![new_variable].grad_meta =
        [args |-> <<variable>>, backward |-> <<grad_fn>>]]

_binary_set_grad_meta(vs, new_variable, left_variable, right_variable, left_fn, right_fn) ==
    [vs EXCEPT ![new_variable].grad_meta =
        [args |-> <<left_variable, right_variable>>,
         backward |-> <<left_fn, right_fn>>]]

(* ----------------------------- variable.c ----------------------------- *)
(* A variable_t* is the index of the variable in `variables` (malloc'ed,   *)
(* never freed).  An operation yields the set of its possible outcomes     *)
(* [heap, status, variables, ret], ret being the new variable (0: none).   *)

Made(hp, vs, v) == [heap |-> hp, status |-> "ok", variables |-> vs, ret |-> v]
Failed(hp, vs, why) == [heap |-> hp, status |-> why, variables |-> vs, ret |-> 0]

_new_variable_from_tensor(hp, vs, tensor) ==
    {Made(g.heap,
          Append(vs, [tensor |-> tensor, gradient |-> g.ret,
                      grad_meta |-> _default_grad_meta]),
          Len(vs) + 1) : g \in _new_tensor_zeros_like(hp, tensor)}

\* _new_variable_from_tensor applied to each tensor a tensor function may return
FromTensors(made, vs) ==
    UNION {IF t.status = "ok"
           THEN _new_variable_from_tensor(t.heap, vs, t.ret)
           ELSE {Failed(t.heap, vs, t.status)} : t \in made}

new_variable(hp, vs, dims) ==
    FromTensors(_new_tensor(hp, dims[1], dims[2]), vs)

new_variable_like(hp, vs, old_variable) ==
    FromTensors(_new_tensor_like(hp, vs[old_variable].tensor), vs)

copy_variable(hp, vs, old_variable) ==
    FromTensors(_copy_tensor(hp, vs[old_variable].tensor), vs)

set_to_scalar(hp, vs, variable, value) ==
    LET o == _tensor_set_to_scalar_value(hp, vs[variable].tensor, value)
    IN  [heap |-> o.heap, status |-> o.status, variables |-> vs, ret |-> 0]

\* the gradient functions; each yields the set of tensors [heap, status, ret] it may return

_add_grad_backwards(hp, vs, arg, other_arg, child) ==
    _copy_tensor(hp, vs[child].gradient)

_subtract_grad_backwards(hp, vs, arg, other_arg, child) ==
    {IF child_grad.status = "ok"
     THEN _tensor_multiply_by_scalar_value(child_grad.heap, child_grad.ret, -1)
     ELSE child_grad : child_grad \in _copy_tensor(hp, vs[child].gradient)}

_multiply_grad_backwards(hp, vs, arg, other_arg, child) ==
    {IF arg_grad.status = "ok"
     THEN _tensor_multiply_existing(arg_grad.heap, arg_grad.ret, vs[other_arg].tensor)
     ELSE arg_grad : arg_grad \in _copy_tensor(hp, vs[child].gradient)}

_abs_grad_backwards(hp, vs, arg, result_variable) ==
    UNION {IF g.status = "ok"
           THEN _tensor_multiply(g.heap, g.ret, vs[result_variable].gradient)
           ELSE {g} : g \in _tensor_abs_grad(hp, vs[arg].tensor)}

_sum_grad_backwards(hp, vs, arg, result_variable) ==
    UNION {IF g.status = "ok"
           THEN _tensor_multiply(g.heap, g.ret, vs[result_variable].tensor)
           ELSE {g} : g \in _tensor_sum_grad(hp, vs[arg].tensor)}

\* the tracked result of a binary operation: grad_meta set on the new variable
TrackBinary(made, use_grad, left_variable, right_variable, grad_fn) ==
    {IF o.status = "ok" /\ use_grad
     THEN [o EXCEPT !.variables =
              _binary_set_grad_meta(o.variables, o.ret, left_variable, right_variable,
                                    grad_fn, grad_fn)]
     ELSE o : o \in made}

TrackUnary(made, use_grad, variable, grad_fn) ==
    {IF o.status = "ok" /\ use_grad
     THEN [o EXCEPT !.variables =
              _unary_set_grad_meta(o.variables, o.ret, variable, grad_fn)]
     ELSE o : o \in made}

\* _add with new_variable and left_variable exchanged in the call that sets grad_meta
_add_meta_on_operand(hp, vs, left_variable, right_variable, use_grad) ==
    {IF o.status = "ok" /\ use_grad
     THEN [o EXCEPT !.variables =
              _binary_set_grad_meta(o.variables, left_variable, o.ret, right_variable,
                                    "_add_grad_backwards", "_add_grad_backwards")]
     ELSE o : o \in FromTensors(_tensor_add(hp, vs[left_variable].tensor,
                                            vs[right_variable].tensor), vs)}

_add(hp, vs, left_variable, right_variable, use_grad) ==
    TrackBinary(FromTensors(_tensor_add(hp, vs[left_variable].tensor,
                                        vs[right_variable].tensor), vs),
                use_grad, left_variable, right_variable, "_add_grad_backwards")

_subtract(hp, vs, left_variable, right_variable, use_grad) ==
    TrackBinary(FromTensors(_tensor_subtract(hp, vs[left_variable].tensor,
                                             vs[right_variable].tensor), vs),
                use_grad, left_variable, right_variable, "_subtract_grad_backwards")

_multiply(hp, vs, left_variable, right_variable, use_grad) ==
    TrackBinary(FromTensors(_tensor_multiply(hp, vs[left_variable].tensor,
                                             vs[right_variable].tensor), vs),
                use_grad, left_variable, right_variable, "_multiply_grad_backwards")

_abs(hp, vs, variable, use_grad) ==
    TrackUnary(FromTensors(_tensor_abs(hp, vs[variable].tensor), vs),
               use_grad, variable, "_abs_grad_backwards")

_sum(hp, vs, variable, use_grad) ==
    TrackUnary(FromTensors(_tensor_sum(hp, vs[variable].tensor), vs),
               use_grad, variable, "_sum_grad_backwards")

add(hp, vs, left_variable, right_variable) ==
    _add(hp, vs, left_variable, right_variable, TRUE)

subtract(hp, vs, left_variable, right_variable) ==
    _subtract(hp, vs, left_variable, right_variable, TRUE)

\* multiply passing false for use_grad
multiply_untracked(hp, vs, left_variable, right_variable) ==
    _multiply(hp, vs, left_variable, right_variable, FALSE)

multiply(hp, vs, left_variable, right_variable) ==
    _multiply(hp, vs, left_variable, right_variable, TRUE)

abs(hp, vs, variable) == _abs(hp, vs, variable, TRUE)

sum(hp, vs, variable) == _sum(hp, vs, variable, TRUE)

(* ------------------------ the backward pass --------------------------- *)

\* (*grad_fn)(arg, other_arg, child) for a binary node, (*grad_fn)(arg, child) for a unary one
CallBackward(grad_fn, hp, vs, arg, other_arg, child) ==
    CASE grad_fn = "_add_grad_backwards" -> _add_grad_backwards(hp, vs, arg, other_arg, child)
      [] grad_fn = "_subtract_grad_backwards" ->
            _subtract_grad_backwards(hp, vs, arg, other_arg, child)
      [] grad_fn = "_multiply_grad_backwards" ->
            _multiply_grad_backwards(hp, vs, arg, other_arg, child)
      [] grad_fn = "_abs_grad_backwards" -> _abs_grad_backwards(hp, vs, arg, child)
      [] grad_fn = "_sum_grad_backwards" -> _sum_grad_backwards(hp, vs, arg, child)

\* gradient[i] += contribution[i]
Accumulate(hp, gradient, contribution) ==
    LET n == _tensor_get_size(gradient)
        checked == DEBUG_ASSERT(_tensor_exact_compatible(gradient, contribution),
                                "ShapeMismatch")
    IN  IF checked # "ok"
        THEN Abort(hp, checked)
        ELSE IF Accessible(hp, gradient, n) /\ Accessible(hp, contribution, n)
        THEN Store(hp, gradient, [i \in 1..n |-> hp.blocks[gradient.data][i] + hp.blocks[contribution.data][i]])
        ELSE Abort(hp, "Fault")

Operands(vs, n) == {vs[n].grad_meta.args[i] : i \in DOMAIN vs[n].grad_meta.args}

RECURSIVE ReachFrom(_, _, _)
ReachFrom(vs, nodes, k) ==
    IF k = 0
    THEN nodes
    ELSE ReachFrom(vs, nodes \cup UNION {Operands(vs, n) : n \in nodes}, k - 1)

\* the nodes of the graph under `r`
Reach(vs, r) == ReachFrom(vs, {r}, Len(vs))

\* n is next in some reverse topological order: all its consumers have contributed
Ready(vs, r, done, n) ==
    /\ n \in Reach(vs, r) \ done
    /\ \A m \in Reach(vs, r) : n \in Operands(vs, m) => m \in done

\* the driver's step for operand `slot` of `child`, from each state in `before`:
\* call the recorded gradient function and add what it returns to the operand's gradient
Contribute(before, vs, child, slot) ==
    LET meta == vs[child].grad_meta
        arg == meta.args[slot]
        other_arg == IF Len(meta.args) = 2 THEN meta.args[3 - slot] ELSE 0
    IN  UNION {IF d.status # "ok"
               THEN {d}
               ELSE {IF c.status # "ok"
                     THEN [heap |-> c.heap, status |-> c.status, log |-> d.log]
                     ELSE LET a == Accumulate(c.heap, vs[arg].gradient, c.ret)
                          IN  [heap |-> a.heap, status |-> a.status,
                               log |-> Append(d.log,
                                   [child |-> child, slot |-> slot, arg |-> arg,
                                    num_rows |-> c.ret.num_rows,
                                    num_columns |-> c.ret.num_columns,
                                    entries |-> Entries(c.heap, c.ret)])]
                       : c \in CallBackward(meta.backward[slot], d.heap, vs,
                                            arg, other_arg, child)}
                 : d \in before}

VisitNode(hp, vs, child) ==
    LET start == {[heap |-> hp, status |-> "ok", log |-> << >>]}
        n == Len(vs[child].grad_meta.args)
    IN  IF n = 0 THEN start
        ELSE IF n = 1 THEN Contribute(start, vs, child, 1)
        ELSE Contribute(Contribute(start, vs, child, 1), vs, child, 2)

(* --------------------------- client programs -------------------------- *)
(* `script` is the client's program, a sequence of calls, and `cursor` the  *)
(* next call; with an empty script the client makes any call at any time.  *)

Free == script = << >>

May(call) == Free \/ (cursor <= Len(script) /\ script[cursor] = call)

Building == status = "ok" /\ root = 0

Room == Free => Len(variables) < MaxVars

Dims == 1..MaxDim

Commit(o, how) ==
    /\ heap' = o.heap
    /\ status' = o.status
    /\ variables' = o.variables
    /\ origin' = IF o.ret # 0 THEN Append(origin, how) ELSE origin
    /\ cursor' = IF Free THEN cursor ELSE cursor + 1
    /\ UNCHANGED <<script, root, visited, contrib, tensorVars>>

\* how a variable was made: by a constructor, by a public operation, or by an
\* internal variant called with the flag use_grad
How(op, entry, use_grad, args) ==
    [op |-> op, entry |-> entry, use_grad |-> use_grad, args |-> args]

NewVariable ==
    \E r \in Dims, c \in Dims :
        /\ Building /\ Room /\ May(<<"new_variable", r, c>>)
        /\ Free => <<r, c>> \in FreeShapes
        /\ \E o \in new_variable(heap, variables, <<r, c>>) :
              Commit(o, How("new_variable", "constructor", FALSE, << >>))

NewVariableLike ==
    \E v \in DOMAIN variables :
        /\ Building /\ Room /\ May(<<"new_variable_like", v>>)
        /\ \E o \in new_variable_like(heap, variables, v) :
              Commit(o, How("new_variable_like", "constructor", FALSE, << >>))

CopyVariable ==
    \E v \in DOMAIN variables :
        /\ Building /\ Room /\ May(<<"copy_variable", v>>)
        /\ \E o \in copy_variable(heap, variables, v) :
              Commit(o, How("copy_variable", "constructor", FALSE, << >>))

SetToScalar ==
    \E v \in DOMAIN variables, value \in Scalars :
        /\ Building /\ May(<<"set_to_scalar", v, value>>)
        /\ Free => value \in FreeScalars
        /\ Commit(set_to_scalar(heap, variables, v, value), << >>)

Add ==
    \E l \in DOMAIN variables, r \in DOMAIN variables :
        /\ Building /\ Room /\ May(<<"add", l, r>>)
        /\ \E o \in add(heap, variables, l, r) : Commit(o, How("add", "public", TRUE, <<l, r>>))

Subtract ==
    \E l \in DOMAIN variables, r \in DOMAIN variables :
        /\ Building /\ Room /\ May(<<"subtract", l, r>>)
        /\ \E o \in subtract(heap, variables, l, r) :
              Commit(o, How("subtract", "public", TRUE, <<l, r>>))

Multiply ==
    \E l \in DOMAIN variables, r \in DOMAIN variables :
        /\ Building /\ Room /\ May(<<"multiply", l, r>>)
        /\ \E o \in multiply(heap, variables, l, r) :
              Commit(o, How("multiply", "public", TRUE, <<l, r>>))

AbsValue ==
    \E v \in DOMAIN variables :
        /\ Building /\ Room /\ May(<<"abs", v>>)
        /\ \E o \in abs(heap, variables, v) : Commit(o, How("abs", "public", TRUE, <<v>>))

Sum ==
    \E v \in DOMAIN variables :
        /\ Building /\ Room /\ May(<<"sum", v>>)
        /\ \E o \in sum(heap, variables, v) : Commit(o, How("sum", "public", TRUE, <<v>>))

\* the internal variants, which a composition of atomic functions calls with either flag
InternalAdd ==
    \E l \in DOMAIN variables, r \in DOMAIN variables, use_grad \in BOOLEAN :
        /\ Building /\ Room /\ Free
        /\ \E o \in _add(heap, variables, l, r, use_grad) :
              Commit(o, How("add", "internal", use_grad, <<l, r>>))

InternalSubtract ==
    \E l \in DOMAIN variables, r \in DOMAIN variables, use_grad \in BOOLEAN :
        /\ Building /\ Room /\ Free
        /\ \E o \in _subtract(heap, variables, l, r, use_grad) :
              Commit(o, How("subtract", "internal", use_grad, <<l, r>>))

InternalMultiply ==
    \E l \in DOMAIN variables, r \in DOMAIN variables, use_grad \in BOOLEAN :
        /\ Building /\ Room /\ Free
        /\ \E o \in _multiply(heap, variables, l, r, use_grad) :
              Commit(o, How("multiply", "internal", use_grad, <<l, r>>))

InternalAbs ==
    \E v \in DOMAIN variables, use_grad \in BOOLEAN :
        /\ Building /\ Room /\ Free
        /\ \E o \in _abs(heap, variables, v, use_grad) :
              Commit(o, How("abs", "internal", use_grad, <<v>>))

InternalSum ==
    \E v \in DOMAIN variables, use_grad \in BOOLEAN :
        /\ Building /\ Room /\ Free
        /\ \E o \in _sum(heap, variables, v, use_grad) :
              Commit(o, How("sum", "internal", use_grad, <<v>>))

\* the driver starts: the root's gradient is set to the seed
Backward ==
    \E r \in DOMAIN variables, seed \in Seeds :
        /\ Building /\ May(<<"backward", r, seed>>)
        /\ LET o == _tensor_set_to_scalar_value(heap, variables[r].gradient, seed)
           IN  heap' = o.heap /\ status' = o.status
        /\ root' = r
        /\ visited' = {}
        /\ contrib' = << >>
        /\ cursor' = IF Free THEN cursor ELSE cursor + 1
        /\ UNCHANGED <<variables, origin, script, tensorVars>>

\* the driver visits one node whose consumers have all contributed
Visit ==
    \E n \in DOMAIN variables :
        /\ status = "ok" /\ root # 0
        /\ Ready(variables, root, visited, n)
        /\ \E d \in VisitNode(heap, variables, n) :
              /\ heap' = d.heap
              /\ status' = d.status
              /\ contrib' = contrib \o d.log
        /\ visited' = visited \cup {n}
        /\ UNCHANGED <<variables, origin, script, cursor, root, tensorVars>>

GraphInit(program) ==
    /\ heap = [blocks |-> << >>, stale |-> 0]
    /\ status = "ok"
    /\ variables = << >>
    /\ origin = << >>
    /\ script = program
    /\ cursor = 1
    /\ root = 0
    /\ visited = {}
    /\ contrib = << >>
    /\ pc = "graph"
    /\ left = NullHeader
    /\ right = NullHeader
    /\ result = NullHeader
    /\ heap0 = heap

\* a client that makes any constructor call and any atomic operation, in any order
Init == GraphInit(<< >>)

Next ==
    \/ NewVariable
    \/ NewVariableLike
    \/ CopyVariable
    \/ SetToScalar
    \/ Add
    \/ Subtract
    \/ Multiply
    \/ AbsValue
    \/ Sum
    \/ InternalAdd
    \/ InternalSubtract
    \/ InternalMultiply
    \/ InternalAbs
    \/ InternalSum

Spec == Init /\ [][Next]_vars

(* ------------------------- scripted clients --------------------------- *)

ProgramShapes == {<<1, 1>>, <<2, 2>>}
ProgramScalars == {3, 4}

\* a = r x c filled with va, b = r x c filled with vb, c = multiply(a, b), d = sum(c),
\* backward from d with seed 1
EndToEnd(r, c, va, vb) ==
    << <<"new_variable", r, c>>, <<"set_to_scalar", 1, va>>,
       <<"new_variable", r, c>>, <<"set_to_scalar", 2, vb>>,
       <<"multiply", 1, 2>>, <<"sum", 3>>, <<"backward", 4, 1>> >>

\* a, b as above, c = op(a, b), backward from c with the seed
BinaryProgram(op, r, c, va, vb, seed) ==
    << <<"new_variable", r, c>>, <<"set_to_scalar", 1, va>>,
       <<"new_variable", r, c>>, <<"set_to_scalar", 2, vb>>,
       <<op, 1, 2>>, <<"backward", 3, seed>> >>

\* x, y, z leaves, p = add(x, y), q = multiply(x, z), root = add(p, q), backward from root
Accumulation(r, c, vx, vy, vz, seed) ==
    << <<"new_variable", r, c>>, <<"set_to_scalar", 1, vx>>,
       <<"new_variable", r, c>>, <<"set_to_scalar", 2, vy>>,
       <<"new_variable", r, c>>, <<"set_to_scalar", 3, vz>>,
       <<"add", 1, 2>>, <<"multiply", 1, 3>>, <<"add", 4, 5>>,
       <<"backward", 6, seed>> >>

\* a as above, c = op(a), backward from c with the seed
UnaryProgram(op, r, c, va, seed) ==
    << <<"new_variable", r, c>>, <<"set_to_scalar", 1, va>>,
       <<op, 1>>, <<"backward", 2, seed>> >>

Programs ==
    {EndToEnd(sh[1], sh[2], va, vb) :
        sh \in ProgramShapes, va \in ProgramScalars, vb \in ProgramScalars}
      \cup {BinaryProgram(op, sh[1], sh[2], va, vb, seed) :
              op \in {"add", "subtract", "multiply"}, sh \in ProgramShapes,
              va \in ProgramScalars, vb \in ProgramScalars, seed \in Seeds}
      \cup {UnaryProgram(op, sh[1], sh[2], va, seed) :
              op \in {"abs", "sum"}, sh \in ProgramShapes, va \in Scalars, seed \in Seeds}
      \cup {Accumulation(sh[1], sh[2], 3, vy, 4, seed) :
              sh \in ProgramShapes, vy \in ProgramScalars, seed \in Seeds}

ProgramInit == \E program \in Programs : GraphInit(program)

ProgramNext ==
    \/ NewVariable
    \/ SetToScalar
    \/ Add
    \/ Subtract
    \/ Multiply
    \/ AbsValue
    \/ Sum
    \/ Backward
    \/ Visit

ProgramSpec == ProgramInit /\ [][ProgramNext]_vars

\* every call of the script was made and the backward pass it ends with has
\* ended, by visiting every node under the root or by a failure
Ended ==
    /\ ~Free /\ cursor > Len(script) /\ root # 0
    /\ status # "ok" \/ visited = Reach(variables, root)

(* ---------------- a client of the tensor layer (TensorSpec) ----------- *)

Ramp(n, base, step) == [i \in 1..n |-> base + step * (i - 1)]

\* two caller-owned tensors in live storage, of any shapes and contents
TensorInit ==
    /\ \E lr \in Dims, lc \in Dims, rr \in Dims, rc \in Dims,
          lb \in EntryBases, ls \in EntrySteps, rb \in EntryBases, rs \in EntrySteps :
          /\ heap = [blocks |-> <<Ramp(lr * lc, lb, ls), Ramp(rr * rc, rb, rs)>>,
                     stale |-> 0]
          /\ left = [data |-> 1, num_rows |-> lr, num_columns |-> lc]
          /\ right = [data |-> 2, num_rows |-> rr, num_columns |-> rc]
    /\ heap0 = heap
    /\ result = NullHeader
    /\ status = "ok"
    /\ pc = "start"
    /\ variables = << >>
    /\ origin = << >>
    /\ script = << >>
    /\ cursor = 1
    /\ root = 0
    /\ visited = {}
    /\ contrib = << >>

Returns(o, at) ==
    /\ heap' = o.heap
    /\ status' = o.status
    /\ result' = o.ret
    /\ pc' = at
    /\ UNCHANGED <<left, right, heap0, graphVars>>

TensorAdd ==
    /\ pc = "start"
    /\ \E o \in _tensor_add(heap, left, right) : Returns(o, "add")

TensorSubtract ==
    /\ pc = "start"
    /\ \E o \in _tensor_subtract(heap, left, right) : Returns(o, "subtract")

TensorMultiply ==
    /\ pc = "start"
    /\ \E o \in _tensor_multiply(heap, left, right) : Returns(o, "multiply")

CopyTensor ==
    /\ pc = "start"
    /\ \E o \in _copy_tensor(heap, left) : Returns(o, "copy")

\* the caller writes one entry of the copy
WriteCopy ==
    /\ pc = "copy" /\ status = "ok"
    /\ \E index \in 0..(_tensor_get_size(result) - 1), value \in WrittenValues :
          heap' = _tensor_set_entry(heap, result, value, index)
    /\ pc' = "copy_written"
    /\ UNCHANGED <<status, left, right, result, heap0, graphVars>>

\* the caller writes one entry of the tensor that was copied
WriteOriginal ==
    /\ pc = "copy" /\ status = "ok"
    /\ \E index \in 0..(_tensor_get_size(left) - 1), value \in WrittenValues :
          heap' = _tensor_set_entry(heap, left, value, index)
    /\ pc' = "original_written"
    /\ UNCHANGED <<status, left, right, result, heap0, graphVars>>

TensorNext ==
    \/ TensorAdd
    \/ TensorSubtract
    \/ TensorMultiply
    \/ CopyTensor
    \/ WriteCopy
    \/ WriteOriginal

TensorSpec == TensorInit /\ [][TensorNext]_vars

(* ------------------- claims about the tensor layer -------------------- *)

BinaryOps == {"add", "subtract", "multiply"}

SameShape(s, t) == s.num_rows = t.num_rows /\ s.num_columns = t.num_columns

Expected(op, l, r) ==
    CASE op = "add" -> l + r
      [] op = "subtract" -> l - r
      [] op = "multiply" -> l * r

\* C4: for left and right of exactly equal shape, _tensor_add / _tensor_subtract /
\* _tensor_multiply return a newly allocated tensor of that shape whose entry at
\* every flat index i is left[i] + right[i] / left[i] - right[i] / left[i] * right[i].
C4_ElementwiseResult ==
    (pc \in BinaryOps /\ SameShape(left, right)) =>
        /\ status = "ok"
        /\ SameShape(result, left)
        /\ result.data \in DOMAIN heap.blocks /\ result.data \notin DOMAIN heap0.blocks
        /\ Len(heap.blocks[result.data]) = _tensor_get_size(left)
        /\ \A i \in 1.._tensor_get_size(left) :
              heap.blocks[result.data][i] = Expected(pc, heap0.blocks[left.data][i], heap0.blocks[right.data][i])

\* C5: an elementwise binary operation on two tensors whose shapes are not exactly
\* equal ends with ShapeMismatch before anything is allocated, read or written:
\* the heap is as it was (both inputs unmodified) and no result tensor is returned.
C5_ShapeMismatchFailsFast ==
    (pc \in BinaryOps
       /\ (left.num_rows # right.num_rows \/ left.num_columns # right.num_columns)) =>
        /\ status = "ShapeMismatch"
        /\ heap = heap0
        /\ result = NullHeader

\* a 2x3 and a 3x2 tensor (equal entry counts) were multiplied and the call failed
C5_Witness ==
    /\ pc = "multiply" /\ status = "ShapeMismatch"
    /\ left.num_rows = 2 /\ left.num_columns = 3
    /\ right.num_rows = 3 /\ right.num_columns = 2

\* C8: _copy_tensor(t) returns a tensor of t's shape with entrywise-equal contents in
\* storage distinct from t's; a later write to the copy never changes t, and a later
\* write to t never changes the copy.
C8_CopyIndependent ==
    /\ pc \in {"copy", "copy_written", "original_written"} =>
          /\ status = "ok"
          /\ SameShape(result, left)
          /\ result.data \in DOMAIN heap.blocks /\ result.data \notin DOMAIN heap0.blocks
    /\ pc = "copy" => Entries(heap, result) = Entries(heap0, left)
    /\ pc = "copy_written" => Entries(heap, left) = Entries(heap0, left)
    /\ pc = "original_written" => Entries(heap, result) = Entries(heap0, left)

(* ----------------- claims about variables and gradients --------------- *)

Const(n, value) == [i \in 1..n |-> value]

Negated(q) == [i \in 1..Len(q) |-> -q[i]]

Hadamard(q, w) == [i \in 1..Len(q) |-> q[i] * w[i]]

IsBinaryProgram(op) == Len(script) = 6 /\ script[5] = <<op, 1, 2>>

IsAccumulation == Len(script) = 10

\* C1: for a = 2x2 of 3s and b = 2x2 of 4s, c = multiply(a, b) is all 12 and
\* d = sum(c) is [48]; after seeding d.gradient = [1] and running backward from d,
\* c.gradient is all 1s, a.gradient all 4s and b.gradient all 3s, and nothing fails
\* on the way.  Stated for the runs in which every tensor header is read back as
\* it was written (heap.stale = 0).
C1_EndToEnd ==
    (script = EndToEnd(2, 2, 3, 4) /\ Ended /\ heap.stale = 0) =>
        /\ status = "ok"
        /\ Entries(heap, variables[3].tensor) = Const(4, 12)
        /\ Entries(heap, variables[4].tensor) = <<48>>
        /\ Entries(heap, variables[3].gradient) = Const(4, 1)
        /\ Entries(heap, variables[1].gradient) = Const(4, 4)
        /\ Entries(heap, variables[2].gradient) = Const(4, 3)

\* C2: for c = subtract(a, b), the gradient function recorded for a returns a copy
\* of c.gradient and the one recorded for b returns c.gradient times -1, whatever
\* c.gradient is.  Stated for the runs in which every tensor header is read back as
\* it was written (heap.stale = 0).
C2_SubtractBackward ==
    (IsBinaryProgram("subtract") /\ Ended /\ heap.stale = 0) =>
        /\ status = "ok"
        /\ Len(contrib) = 2
        /\ contrib[1].arg = 1 /\ contrib[1].child = 3
        /\ contrib[1].entries = Entries(heap, variables[3].gradient)
        /\ contrib[2].arg = 2 /\ contrib[2].child = 3
        /\ contrib[2].entries = Negated(Entries(heap, variables[3].gradient))

\* C3: for c = multiply(a, b), a and b of equal shape, the contribution computed
\* for a is c.gradient times b.tensor, entry by entry, and the one for b is
\* c.gradient times a.tensor; with c.gradient seeded to all ones, backward leaves
\* a.gradient = b.tensor and b.gradient = a.tensor.
C3_MultiplyBackward ==
    (IsBinaryProgram("multiply") /\ Ended) =>
        /\ status = "ok"
        /\ Len(contrib) = 2
        /\ contrib[1].arg = 1
        /\ contrib[1].entries = Hadamard(Entries(heap, variables[3].gradient),
                                         Const(Len(contrib[1].entries), script[4][3]))
        /\ contrib[2].arg = 2
        /\ contrib[2].entries = Hadamard(Entries(heap, variables[3].gradient),
                                         Const(Len(contrib[2].entries), script[2][3]))
        /\ Len(contrib[1].entries) = script[1][2] * script[1][3]
        /\ script[6][3] = 1 =>
              /\ Entries(heap, variables[1].gradient) = Entries(heap, variables[2].tensor)
              /\ Entries(heap, variables[2].gradient) = Entries(heap, variables[1].tensor)
              /\ Entries(heap, variables[1].tensor) = Const(script[1][2] * script[1][3], script[2][3])
              /\ Entries(heap, variables[2].tensor) = Const(script[1][2] * script[1][3], script[4][3])

\* the place in the log of the contribution of `child` to its operand `slot`
Calls(child, slot) ==
    {k \in DOMAIN contrib : contrib[k].child = child /\ contrib[k].slot = slot}

\* C6: with p = add(x, y), q = multiply(x, z) and a root depending on both, the
\* backward pass calls each node's gradient functions exactly once, a node's only
\* after all its consumers have contributed, and x.gradient ends as the sum of the
\* contribution from p and the contribution from q, whichever of p and q is
\* processed first.
C6_Accumulation ==
    (IsAccumulation /\ Ended) =>
        /\ status = "ok"
        /\ \A child \in {4, 5, 6}, slot \in {1, 2} : Cardinality(Calls(child, slot)) = 1
        /\ \A k \in DOMAIN contrib : contrib[k].child # 6 => k > 2
        /\ LET n == script[1][2] * script[1][3]
               seed == script[10][3]
           IN  /\ Entries(heap, variables[4].gradient) = Const(n, seed)
               /\ Entries(heap, variables[5].gradient) = Const(n, seed)
               /\ Entries(heap, variables[3].tensor) = Const(n, script[6][3])
               /\ Entries(heap, variables[1].gradient) =
                    Const(n, seed + seed * script[6][3])

\* C7: every variable, however it was made, has a gradient tensor of the shape of
\* its value tensor, all zero when the variable is made, and the shapes stay equal
\* under every later operation, set_to_scalar included.  (No operation of this
\* specification writes a gradient, so the gradient is all zero throughout.)
C7_GradientMatchesValue ==
    \A v \in DOMAIN variables :
        /\ SameShape(variables[v].gradient, variables[v].tensor)
        /\ Entries(heap, variables[v].gradient)
             = Const(_tensor_get_size(variables[v].tensor), 0)

\* C9: the grad_meta references form an acyclic graph: every operand a variable
\* refers to was made strictly before it (so none is its own operand, directly or
\* not: add(x, x) is a new node), and no operation changes the grad_meta of a
\* variable that already exists.
C9_OperandsPrecede ==
    [][/\ \A v \in DOMAIN variables' :
             \A i \in DOMAIN variables'[v].grad_meta.args :
                 variables'[v].grad_meta.args[i] \in 1..(v - 1)
       /\ \A v \in DOMAIN variables :
             /\ v \in DOMAIN variables'
             /\ variables'[v].grad_meta = variables[v].grad_meta]_vars

\* add(x, x) with tracking was called and made the new node 2 with operands x, x
C9_Witness ==
    /\ Len(variables) = 2
    /\ origin[2].op = "add" /\ origin[2].use_grad
    /\ variables[2].grad_meta.args = <<1, 1>>

Arity(op) == IF op \in {"abs", "sum"} THEN 1 ELSE 2

====
